---- MODULE Spec2Model ----
(***************************************************************************)
(* Model of the 511 Transit integration (custom_components/transit_511):   *)
(* the shared GlobalStopCoordinator per (operator, stop), the registry     *)
(* hass.data[DOMAIN]["global_coordinators"], the per-device                *)
(* StopDeviceCoordinator views, and config entry setup / unload.           *)
(*                                                                         *)
(* One action is one run of a task between two suspension points of the    *)
(* event loop (an await that really waits): nothing else can run inside    *)
(* it.  The upstream request of a refresh is such a suspension point.      *)
(***************************************************************************)
EXTENDS Integers, Sequences, FiniteSets, TLC

(***************************************************************************)
(* Bounds of the model.                                                    *)
(***************************************************************************)
MaxGlobal == 2      \* GlobalStopCoordinator instances ever constructed
MaxDevice == 3      \* StopDeviceCoordinator instances ever constructed
MaxTicks == 3       \* refreshes started by one GlobalStopCoordinator
MaxCalls == 3       \* get_stop_monitoring requests sent in all
MaxVisits == 3      \* visits in a snapshot given to _filter_data (SpecFilter)
MaxFilterCalls == 2 \* calls of _filter_data on one snapshot (SpecFilter)

(***************************************************************************)
(* Program constants.                                                      *)
(***************************************************************************)
DEFAULT_SCAN_INTERVAL == 60
MIN_SCAN_INTERVAL == 30
MAX_SCAN_INTERVAL == 300
WARMUP_INTERVAL == 60

(***************************************************************************)
(* Inputs.                                                                 *)
(***************************************************************************)
Entries == {"e1", "e2"}
StopCodes == {"18031", "15000"}
LineIds == {"", "N", "T"}           \* "" is "no line filter"
LineRefs == {"N", "T", "5"}         \* LineRef values upstream reports
ScanIntervals == {DEFAULT_SCAN_INTERVAL, MAX_SCAN_INTERVAL}   \* 60 and one other
ApiErrors == {"Transit511AuthError", "Transit511RateLimitError", "Transit511ApiError"}

\* One MonitoredStopVisit: its MonitoredVehicleJourney.LineRef and VehicleRef.
Visit(l, v) == [LineRef |-> l, VehicleRef |-> v]

\* coordinator.data: None, or {"response_timestamp": .., "visits": [..]}.
\* response_timestamp 0 stands for None.
Data(ts, vs) == [is_none |-> FALSE, response_timestamp |-> ts, visits |-> vs]
None == [is_none |-> TRUE, response_timestamp |-> 0, visits |-> <<>>]

\* What get_stop_monitoring can deliver on success.
Snapshots ==
    { Data(1, << Visit("N", "v1"), Visit("T", "v2"), Visit("5", "v3"), Visit("N", "v4") >>),
      Data(2, << >>) }

\* entry.data[CONF_STOPS] of a config entry: a list of stop configurations.
StopConfig(s, l) == [stop_code |-> s, line_id |-> l]
StopLists ==
    { << StopConfig("18031", "T") >>,
      << StopConfig("18031", "N"), StopConfig("18031", "T") >>,
      << StopConfig("18031", ""), StopConfig("15000", "N") >> }

GlobalIds == 1..MaxGlobal
DeviceIds == 1..MaxDevice

VARIABLES
    entry_stops,            \* entry.data[CONF_STOPS] of each config entry
    entry_state,            \* ConfigEntry.state
    setup_task,             \* where the entry's async_setup_entry is suspended
    global_coordinators,    \* hass.data[DOMAIN][GLOBAL_COORDINATORS]: key -> instance (0: no key)
    entry_data,             \* hass.data[DOMAIN][entry_id]: device_id -> StopDeviceCoordinator
    global_coords,          \* the GlobalStopCoordinator instances
    device_coords,          \* the StopDeviceCoordinator instances
    next_global,            \* next instance to construct
    next_device,
    api_calls,              \* get_stop_monitoring requests sent, per stop
    filter_data,            \* SpecFilter: global_coordinator.data given to _filter_data
    filter_line,            \* SpecFilter: the line_id of the device coordinator
    filter_view,            \* SpecFilter: the device coordinator _filter_data is called on
    filter_calls,           \* SpecFilter: calls of _filter_data so far
    filter_result,          \* SpecFilter: what _filter_data returned (None: not called yet)
    vt_operator,            \* SpecVehicleType: the arguments of get_vehicle_type
    vt_line_ref,
    vt_mode,
    vt_result,              \* SpecVehicleType: what it returned ("": not called yet)
    rq_response,            \* SpecRequest: what the session answers to the request
    rq_result,              \* SpecRequest: how the refresh that sent the request ended
    entry_config,           \* SpecFlow: entry.data as the config flow has written it
    stagger,                \* SpecStagger: a stop and a vehicle coordinator side by side
    unload_result           \* SpecUnload: what the last async_unload_entry of the entry returned

filter_vars == << filter_data, filter_line, filter_view, filter_calls, filter_result >>

function_vars ==
    << vt_operator, vt_line_ref, vt_mode, vt_result, rq_response, rq_result, entry_config,
       stagger, unload_result >>

vars == << entry_stops, entry_state, setup_task, global_coordinators, entry_data,
           global_coords, device_coords, next_global, next_device, api_calls,
           filter_data, filter_line, filter_view, filter_calls, filter_result,
           vt_operator, vt_line_ref, vt_mode, vt_result, rq_response, rq_result,
           entry_config, stagger, unload_result >>

(***************************************************************************)
(* Device ids: f"{operator}_{stop_code}" + f"_{line_id}" if line_id.       *)
(* One operator per entry; the model has one operator, so the registry     *)
(* key f"{operator}_{stop_code}" is the stop code.                         *)
(***************************************************************************)
DeviceKey(sc) == << sc.stop_code, sc.line_id >>
DeviceKeys == StopCodes \X LineIds

NoEntryData == [d \in DeviceKeys |-> 0]

BlankGlobal ==
    [ created |-> FALSE, stop_code |-> "", scan_interval |-> 0,
      first_update_done |-> FALSE, update_interval |-> 0,
      data |-> None, last_update_success |-> TRUE,
      listeners |-> << >>, refresh_scheduled |-> FALSE, scheduled_delay |-> 0,
      fetching |-> FALSE, ticks |-> 0,
      notified |-> << >> ]  \* the listeners called at the end of the last refresh

BlankDevice ==
    [ created |-> FALSE, entry |-> "", global_coordinator |-> 0,
      stop_code |-> "", line_id |-> "", device_name_updated |-> FALSE,
      renames |-> 0,        \* device_registry.async_update_device calls for its device
      data |-> None, last_update_success |-> TRUE ]

NoTask == [idx |-> 0, coord |-> 0, scan_interval |-> 0]

(***************************************************************************)
(* StopDeviceCoordinator._filter_data                                      *)
(***************************************************************************)
\* (mutant) the line of the visit is not looked at
LineMatches_AnyLine(visit, line_id) == TRUE

\* line_ref == self.line_id, with line_ref = journey.get("LineRef", "")
LineMatches(visit, line_id) == visit.LineRef = line_id

\* the loop over visits that appends the matching ones to filtered_visits
RECURSIVE FilterLoop(_, _, _)
FilterLoop(visits, line_id, filtered_visits) ==
    IF visits = << >>
    THEN filtered_visits
    ELSE FilterLoop(Tail(visits), line_id,
                    IF LineMatches(Head(visits), line_id)
                    THEN Append(filtered_visits, Head(visits))
                    ELSE filtered_visits)

\* the visits _filter_data keeps: all of them when line_id is falsy
FilteredVisits(data, line_id) ==
    IF line_id # "" THEN FilterLoop(data.visits, line_id, << >>) ELSE data.visits

\* (mutant) no test for missing data: the call fails and returns nothing
FilterData_FailsWithoutData(data, line_id) ==
    IF data.is_none
    THEN None
    ELSE Data(data.response_timestamp, FilteredVisits(data, line_id))

\* the value _filter_data returns for the global coordinator's data
FilterData(data, line_id) ==
    IF data.is_none
    THEN Data(0, << >>)
    ELSE Data(data.response_timestamp, FilteredVisits(data, line_id))

\* a visit whose "MonitoredVehicleJourney" is null: visit.get(
\* "MonitoredVehicleJourney", {}) is then None, and None has no get
NullJourneyVisit == [LineRef |-> "", VehicleRef |-> "", journey |-> "null"]
JourneyIsNull(visit) == "journey" \in DOMAIN visit
AnyJourneyNull(visits) == \E i \in 1..Len(visits) : JourneyIsNull(visits[i])

\* _filter_data raises AttributeError: journey.get("LineRef", "") in the
\* loop over the visits, which runs when line_id is set
FilterRaises(data, line_id) ==
    ~data.is_none /\ line_id # "" /\ AnyJourneyNull(data.visits)

\* _update_device_name reaches "self._device_name_updated = True": none of
\* its journey.get / j.get calls raises into its "except Exception"
NameUpdateCompletes(visits) == ~AnyJourneyNull(visits)

\* _filter_data calls _update_device_name when visits is non-empty and the
\* name was not updated yet; _update_device_name sets the flag.
DeviceNameUpdated(flag, data, line_id) ==
    flag \/ (/\ ~data.is_none
             /\ FilteredVisits(data, line_id) # << >>
             /\ NameUpdateCompletes(FilteredVisits(data, line_id)))

\* "if visits and not self._device_name_updated": _update_device_name is
\* called and updates the name of the device in the device registry
RenameDue(flag, data, line_id) ==
    /\ ~flag
    /\ ~data.is_none
    /\ FilteredVisits(data, line_id) # << >>
    /\ NameUpdateCompletes(FilteredVisits(data, line_id))

(***************************************************************************)
(* GlobalStopCoordinator                                                   *)
(***************************************************************************)
\* __init__: update_interval is the entry's scan interval, no data yet
NewGlobal(stop_code, scan_interval) ==
    [BlankGlobal EXCEPT !.created = TRUE, !.stop_code = stop_code,
                        !.scan_interval = scan_interval,
                        !.update_interval = scan_interval]

\* (mutant) the first update does not force the 60 s interval
StaggerInterval_NoWarmup(g) ==
    IF g.first_update_done
    THEN IF g.update_interval = WARMUP_INTERVAL
         THEN [g EXCEPT !.update_interval = g.scan_interval]
         ELSE g
    ELSE [g EXCEPT !.first_update_done = TRUE]

\* (mutant) the warm-up starts again once the configured interval is reached
StaggerInterval_Restarts(g) ==
    IF g.first_update_done
    THEN IF g.update_interval = WARMUP_INTERVAL
         THEN [g EXCEPT !.update_interval = g.scan_interval]
         ELSE [g EXCEPT !.first_update_done = FALSE]
    ELSE [g EXCEPT !.first_update_done = TRUE, !.update_interval = WARMUP_INTERVAL]

\* _async_update_data, the staggering of the interval before the request
StaggerInterval(g) ==
    IF g.first_update_done
    THEN IF g.update_interval = WARMUP_INTERVAL
         THEN [g EXCEPT !.update_interval = g.scan_interval]
         ELSE g
    ELSE [g EXCEPT !.first_update_done = TRUE, !.update_interval = WARMUP_INTERVAL]

\* a refresh up to the point where it waits for client.get_stop_monitoring;
\* the pending timer is dropped when a refresh starts
BeginRefresh(g) ==
    [StaggerInterval(g) EXCEPT !.fetching = TRUE, !.ticks = g.ticks + 1,
                               !.refresh_scheduled = FALSE, !.scheduled_delay = 0]

\* _async_update_data returned a dict: it becomes coordinator.data
RefreshSucceeded(g, snapshot) ==
    [g EXCEPT !.data = snapshot, !.last_update_success = TRUE, !.fetching = FALSE]

\* (mutant) a failed refresh drops the data
RefreshFailed_ClearsData(g, err) ==
    [g EXCEPT !.data = None, !.last_update_success = FALSE, !.fetching = FALSE]

\* (mutant) a failed refresh falls back to the 60 s interval
RefreshFailed_Backoff(g, err) ==
    [g EXCEPT !.update_interval = WARMUP_INTERVAL,
              !.last_update_success = FALSE, !.fetching = FALSE]

\* Transit511ApiError -> UpdateFailed: data is left alone
RefreshFailed(g, err) ==
    [g EXCEPT !.last_update_success = FALSE, !.fetching = FALSE]

\* (mutant) the timer is armed again only after a successful refresh
ScheduleRefresh_AfterSuccessOnly(g) ==
    IF g.listeners # << >> /\ g.last_update_success
    THEN [g EXCEPT !.refresh_scheduled = TRUE, !.scheduled_delay = g.update_interval]
    ELSE g

\* the next refresh is scheduled update_interval from now, if anyone listens
ScheduleRefresh(g) ==
    IF g.listeners # << >>
    THEN [g EXCEPT !.refresh_scheduled = TRUE, !.scheduled_delay = g.update_interval]
    ELSE g

\* async_add_listener: the first listener starts the timer
AddListener(g, v) ==
    LET g1 == [g EXCEPT !.listeners = Append(g.listeners, v)]
    IN  IF g.listeners = << >> THEN ScheduleRefresh(g1) ELSE g1

(***************************************************************************)
(* StopDeviceCoordinator                                                   *)
(***************************************************************************)
\* __init__ (the listener is added by the caller of NewDevice, AttachDevice)
NewDevice(e, p, sc) ==
    [BlankDevice EXCEPT !.created = TRUE, !.entry = e, !.global_coordinator = p,
                        !.stop_code = sc.stop_code, !.line_id = sc.line_id]

\* what a call of _filter_data leaves of the device coordinator it is called
\* on: _update_device_name has run when it was due
FilterDataEffect(d, data) ==
    [d EXCEPT !.device_name_updated = DeviceNameUpdated(d.device_name_updated, data, d.line_id),
              !.renames = IF RenameDue(d.device_name_updated, data, d.line_id)
                          THEN d.renames + 1 ELSE d.renames]

\* _handle_global_coordinator_update: async_set_updated_data(_filter_data()),
\* which stores the data and marks the device coordinator's update a success
HandleGlobalUpdate(d, g) ==
    [FilterDataEffect(d, g.data) EXCEPT !.data = FilterData(g.data, d.line_id),
                                        !.last_update_success = TRUE]

\* _handle_global_coordinator_update raises what _filter_data raises, before
\* anything of the device coordinator has changed
HandlerRaises(d, g) == FilterRaises(g.data, d.line_id)

\* async_update_listeners: the callbacks run in registration order; the
\* listener is added without a guard (__init__), so that an exception of a
\* callback ends the loop
RECURSIVE UpdateListeners(_, _, _)
UpdateListeners(dc, g, listeners) ==
    IF listeners = << >>
    THEN dc
    ELSE IF HandlerRaises(dc[Head(listeners)], g)
    THEN dc
    ELSE UpdateListeners([dc EXCEPT ![Head(listeners)] = HandleGlobalUpdate(dc[Head(listeners)], g)],
                         g, Tail(listeners))

\* listeners are not called again while the refresh keeps failing
ShouldNotify(previous_update_success, g) ==
    g.last_update_success \/ previous_update_success

(***************************************************************************)
(* async_setup_entry.  W is the state the running task works on:           *)
(* reg = global_coordinators, ed = entry_data, gc / dc = the coordinator   *)
(* instances, st = entry_state, task = setup_task.                         *)
(***************************************************************************)
World ==
    [ reg |-> global_coordinators, ed |-> entry_data, gc |-> global_coords,
      dc |-> device_coords, ng |-> next_global, nd |-> next_device,
      calls |-> api_calls, st |-> entry_state, task |-> setup_task ]

Becomes(W) ==
    /\ global_coordinators' = W.reg
    /\ entry_data' = W.ed
    /\ global_coords' = W.gc
    /\ device_coords' = W.dc
    /\ next_global' = W.ng
    /\ next_device' = W.nd
    /\ api_calls' = W.calls
    /\ entry_state' = W.st
    /\ setup_task' = W.task
    /\ UNCHANGED << entry_stops, filter_vars,
                    function_vars >>

\* (mutant) a reused coordinator takes over the scan interval of the entry
ReuseGlobal_Reconfigured(g, scan_interval) ==
    [g EXCEPT !.scan_interval = scan_interval, !.update_interval = scan_interval]

\* the else branch of "if global_coord_key not in global_coordinators":
\* the stored coordinator is taken as it is
ReuseGlobal(g, scan_interval) == g

\* "Update device name with real stop name from API data": setup updates the
\* name of the device when the global coordinator holds visits (of any
\* line), unless journey.get of the first visit raises into "except Exception"
SetupRenames(g) ==
    IF ~g.data.is_none /\ g.data.visits # << >> /\ ~JourneyIsNull(g.data.visits[1])
    THEN 1
    ELSE 0

\* coordinator = StopDeviceCoordinator(..); the device name update;
\* entry_data[device_id] = coordinator
AttachDevice(W, e, sc, p) ==
    LET v == W.nd
    IN  [W EXCEPT !.dc[v] = [NewDevice(e, p, sc) EXCEPT !.renames = SetupRenames(W.gc[p])],
                  !.gc[p] = AddListener(W.gc[p], v),
                  !.ed[e][DeviceKey(sc)] = v,
                  !.nd = v + 1]

\* GlobalStopCoordinator(..) and async_config_entry_first_refresh() up to the
\* request: the task is suspended at stop i until the response arrives
CreateGlobal(W, e, i, sc, scan_interval) ==
    LET p == W.ng
    IN  [W EXCEPT !.gc[p] = BeginRefresh(NewGlobal(sc.stop_code, scan_interval)),
                  !.calls[sc.stop_code] = W.calls[sc.stop_code] + 1,
                  !.ng = p + 1,
                  !.task[e] = [idx |-> i, coord |-> p, scan_interval |-> scan_interval]]

\* "for stop_config in stops" from stop i on, until the task is suspended in
\* a first refresh or the loop ends (the entry is then loaded)
RECURSIVE SetupLoop(_, _, _, _)
SetupLoop(W, e, i, scan_interval) ==
    IF i > Len(entry_stops[e])
    THEN [W EXCEPT !.st[e] = "loaded", !.task[e] = NoTask]
    ELSE LET sc == entry_stops[e][i]
             p == W.reg[sc.stop_code]
         IN  IF p = 0
             THEN CreateGlobal(W, e, i, sc, scan_interval)
             ELSE SetupLoop(AttachDevice([W EXCEPT !.gc[p] = ReuseGlobal(W.gc[p], scan_interval)],
                                         e, sc, p),
                            e, i + 1, scan_interval)

\* the coordinators constructed and the requests sent stay within the bounds
Fits(W) ==
    /\ W.ng <= MaxGlobal + 1
    /\ W.nd <= MaxDevice + 1
    /\ W.calls["18031"] + W.calls["15000"] <= MaxCalls

\* async_setup_entry is called for an entry that is not loaded, with the scan
\* interval its options hold at that time
SetupEntry(e, scan_interval) ==
    /\ entry_state[e] \in {"not_loaded", "setup_retry"}
    /\ LET W == SetupLoop([World EXCEPT !.st[e] = "setup_in_progress"],
                          e, 1, scan_interval)
       IN  Fits(W) /\ Becomes(W)

\* the first refresh of the coordinator the setup of e waits for succeeds:
\* the coordinator is stored, its device coordinator created, the loop goes on
FirstRefreshSucceeds(e, snapshot) ==
    LET t == setup_task[e]
        sc == entry_stops[e][t.idx]
        W1 == [World EXCEPT !.gc[t.coord] = ScheduleRefresh(RefreshSucceeded(global_coords[t.coord], snapshot)),
                            !.reg[sc.stop_code] = t.coord]
        W2 == SetupLoop(AttachDevice(W1, e, sc, t.coord), e, t.idx + 1, t.scan_interval)
    IN  /\ t.idx > 0
        /\ Fits(W2)
        /\ Becomes(W2)

\* (mutant) the coordinator is stored although its first refresh failed
FirstRefreshFails_StoresCoordinator(e, err) ==
    LET t == setup_task[e]
    IN  /\ t.idx > 0
        /\ Becomes([World EXCEPT !.gc[t.coord] = ScheduleRefresh(RefreshFailed(global_coords[t.coord], err)),
                                 !.reg[entry_stops[e][t.idx].stop_code] = t.coord,
                                 !.st[e] = "setup_retry",
                                 !.task[e] = NoTask])

\* the first refresh fails: async_config_entry_first_refresh raises
\* ConfigEntryNotReady, async_setup_entry ends there and is retried later
FirstRefreshFails(e, err) ==
    LET t == setup_task[e]
    IN  /\ t.idx > 0
        /\ Becomes([World EXCEPT !.gc[t.coord] = ScheduleRefresh(RefreshFailed(global_coords[t.coord], err)),
                                 !.st[e] = "setup_retry",
                                 !.task[e] = NoTask])

(***************************************************************************)
(* The timer of a GlobalStopCoordinator fires.                             *)
(***************************************************************************)
\* (mutant) the timer of p waits while another coordinator is in a request
TickBegin_Serialized(p) ==
    /\ \A q \in GlobalIds \ {p} : ~(global_coords[q].created /\ global_coords[q].fetching)
    /\ global_coords[p].created
    /\ global_coords[p].refresh_scheduled
    /\ global_coords[p].ticks < MaxTicks
    /\ api_calls["18031"] + api_calls["15000"] < MaxCalls
    /\ global_coords' = [global_coords EXCEPT ![p] = BeginRefresh(global_coords[p])]
    /\ api_calls' = [api_calls EXCEPT ![global_coords[p].stop_code] = @ + 1]
    /\ UNCHANGED << entry_stops, entry_state, setup_task, global_coordinators,
                    entry_data, device_coords, next_global, next_device, filter_vars,
                    function_vars >>

TickBegin(p) ==
    /\ global_coords[p].created
    /\ global_coords[p].refresh_scheduled
    /\ global_coords[p].ticks < MaxTicks
    /\ api_calls["18031"] + api_calls["15000"] < MaxCalls
    /\ global_coords' = [global_coords EXCEPT ![p] = BeginRefresh(global_coords[p])]
    /\ api_calls' = [api_calls EXCEPT ![global_coords[p].stop_code] = @ + 1]
    /\ UNCHANGED << entry_stops, entry_state, setup_task, global_coordinators,
                    entry_data, device_coords, next_global, next_device, filter_vars,
                    function_vars >>

\* the listeners the end of a refresh calls, in the order of the calls
\* the callbacks called up to, and with, the first one that raises
RECURSIVE CalledCallbacks(_, _)
CalledCallbacks(g, listeners) ==
    IF listeners = << >>
    THEN << >>
    ELSE IF HandlerRaises(device_coords[Head(listeners)], g)
    THEN << Head(listeners) >>
    ELSE << Head(listeners) >> \o CalledCallbacks(g, Tail(listeners))

CalledListeners(previous_update_success, g) ==
    IF ShouldNotify(previous_update_success, g)
    THEN CalledCallbacks(g, g.listeners)
    ELSE << >>

\* the refresh ends: schedule the next one and tell the listeners
EndRefresh(p, g) ==
    /\ global_coords' =
          [global_coords EXCEPT ![p] =
              [ScheduleRefresh(g) EXCEPT !.notified =
                  CalledListeners(global_coords[p].last_update_success, g)]]
    /\ device_coords' =
          IF ShouldNotify(global_coords[p].last_update_success, g)
          THEN UpdateListeners(device_coords, g, g.listeners)
          ELSE device_coords
    /\ UNCHANGED << entry_stops, entry_state, setup_task, global_coordinators,
                    entry_data, next_global, next_device, api_calls, filter_vars,
                    function_vars >>

\* a coordinator in a scheduled refresh (not the first refresh of a setup)
InTick(p) ==
    /\ global_coords[p].created
    /\ global_coords[p].fetching
    /\ \A e \in Entries : setup_task[e].coord # p

TickSucceeds(p, snapshot) ==
    /\ InTick(p)
    /\ EndRefresh(p, RefreshSucceeded(global_coords[p], snapshot))

TickFails(p, err) ==
    /\ InTick(p)
    /\ EndRefresh(p, RefreshFailed(global_coords[p], err))

(***************************************************************************)
(* The refresh of a StopDeviceCoordinator itself (its entities ask for it, *)
(* or its own timer fires): _async_update_data returns _filter_data().     *)
(***************************************************************************)
\* (mutant) the device coordinator asks upstream itself
DeviceUpdateCalls_Fetches(calls, d) == [calls EXCEPT ![d.stop_code] = @ + 1]

\* the requests sent once StopDeviceCoordinator._async_update_data has run:
\* it only reads self.global_coordinator.data
DeviceUpdateCalls(calls, d) == calls

\* the device coordinators of loaded entries (they have entities)
Loaded(v) == device_coords[v].created /\ entry_state[device_coords[v].entry] = "loaded"

DeviceRefresh(v) ==
    /\ Loaded(v)
    /\ device_coords' = [device_coords EXCEPT ![v] =
                            HandleGlobalUpdate(@, global_coords[@.global_coordinator])]
    /\ api_calls' = DeviceUpdateCalls(api_calls, device_coords[v])
    /\ UNCHANGED << entry_stops, entry_state, setup_task, global_coordinators,
                    entry_data, global_coords, next_global, next_device, filter_vars,
                    function_vars >>

(***************************************************************************)
(* async_unload_entry, after async_unload_platforms returned unload_ok.    *)
(***************************************************************************)
\* global_coordinators during the unload, and whether a KeyError was raised
Popping(reg) == [reg |-> reg, raised |-> FALSE]

\* (mutant) the key stays in global_coordinators
PopKey_KeepsKey(reg, key) == Popping(reg)

\* (mutant) del global_coordinators[key] without the "in" test
PopKey_Unguarded(reg, key) ==
    IF reg[key] # 0 THEN Popping([reg EXCEPT ![key] = 0]) ELSE [reg |-> reg, raised |-> TRUE]

\* if global_coord_key in global_coordinators: global_coordinators.pop(key, None)
PopKey(reg, key) ==
    IF reg[key] # 0 THEN Popping([reg EXCEPT ![key] = 0]) ELSE Popping(reg)

\* the keys of the entry's stops are popped from global_coordinators, one
\* after the other (an exception would end the loop)
RECURSIVE PopStops(_, _)
PopStops(r, stops) ==
    IF stops = << >> \/ r.raised
    THEN r
    ELSE PopStops(PopKey(r.reg, Head(stops).stop_code), Tail(stops))

\* the body of "if unload_ok": the keys are popped, then
\* hass.data[DOMAIN].pop(entry.entry_id, None)
Unloaded(reg, ed, e) ==
    LET r == PopStops(Popping(reg), entry_stops[e])
    IN  [ reg |-> r.reg,
          ed |-> IF r.raised THEN ed ELSE [ed EXCEPT ![e] = NoEntryData],
          raised |-> r.raised ]

\* (mutant) the cleanup does not depend on unload_ok
UnloadEffect_CleansUpAnyway(e, unload_ok) ==
    /\ entry_state[e] = "loaded"
    /\ LET u == Unloaded(global_coordinators, entry_data, e)
       IN  /\ global_coordinators' = u.reg
           /\ entry_data' = u.ed
           /\ entry_state' = [entry_state EXCEPT ![e] =
                                 IF u.raised THEN "failed_unload"
                                 ELSE IF unload_ok THEN "not_loaded" ELSE "loaded"]
    /\ UNCHANGED << entry_stops, setup_task, global_coords, device_coords,
                    next_global, next_device, api_calls, filter_vars >>

\* what async_unload_entry does to hass.data, and to the state of the entry
UnloadEffect(e, unload_ok) ==
    /\ entry_state[e] = "loaded"
    /\ IF unload_ok
       THEN LET u == Unloaded(global_coordinators, entry_data, e)
            IN  /\ global_coordinators' = u.reg
                /\ entry_data' = u.ed
                /\ entry_state' = [entry_state EXCEPT ![e] =
                                      IF u.raised THEN "failed_unload" ELSE "not_loaded"]
       ELSE UNCHANGED << global_coordinators, entry_data, entry_state >>
    /\ UNCHANGED << entry_stops, setup_task, global_coords, device_coords,
                    next_global, next_device, api_calls, filter_vars >>

UnloadEntry(e, unload_ok) ==
    /\ UnloadEffect(e, unload_ok)
    /\ UNCHANGED function_vars

(***************************************************************************)
(* The system.                                                             *)
(***************************************************************************)
\* async_unload_entry has not been called
NotUnloaded == [e \in Entries |-> ""]

\* no coordinators are compared
NoStagger == [scan_interval |-> 0]

\* no entry.data written by the config flow
NoConfig == [monitoring_type |-> "", stop_code |-> "", line_id |-> ""]

\* no request was answered, and no refresh has ended
NoResponse == [get |-> "", status |-> 0, read |-> "", body |-> << >>]
NoResult == [raised |-> "", returned |-> FALSE, update |-> ""]

\* no call of get_vehicle_type and no request is looked at
NoFunctionCall ==
    /\ vt_operator = << >>
    /\ vt_line_ref = << >>
    /\ vt_mode = << >>
    /\ vt_result = ""
    /\ rq_response = NoResponse
    /\ rq_result = NoResult
    /\ entry_config = [e \in Entries |-> NoConfig]
    /\ stagger = NoStagger
    /\ unload_result = NotUnloaded

\* nothing is set up yet
NotSetUp ==
    /\ entry_state = [e \in Entries |-> "not_loaded"]
    /\ setup_task = [e \in Entries |-> NoTask]
    /\ global_coordinators = [s \in StopCodes |-> 0]
    /\ entry_data = [e \in Entries |-> NoEntryData]
    /\ global_coords = [p \in GlobalIds |-> BlankGlobal]
    /\ device_coords = [v \in DeviceIds |-> BlankDevice]
    /\ next_global = 1
    /\ next_device = 1
    /\ api_calls = [s \in StopCodes |-> 0]

Init ==
    /\ entry_stops \in [Entries -> StopLists]
    /\ NotSetUp
    /\ filter_data = None
    /\ filter_line = ""
    /\ filter_view = BlankDevice
    /\ filter_calls = 0
    /\ filter_result = None
    /\ NoFunctionCall

Next ==
    \/ \E e \in Entries, c \in ScanIntervals : SetupEntry(e, c)
    \/ \E e \in Entries, s \in Snapshots : FirstRefreshSucceeds(e, s)
    \/ \E e \in Entries, err \in ApiErrors : FirstRefreshFails(e, err)
    \/ \E p \in GlobalIds : TickBegin(p)
    \/ \E p \in GlobalIds, s \in Snapshots : TickSucceeds(p, s)
    \/ \E p \in GlobalIds, err \in ApiErrors : TickFails(p, err)
    \/ \E e \in Entries, ok \in BOOLEAN : UnloadEntry(e, ok)

Spec == Init /\ [][Next]_vars

(***************************************************************************)
(* SpecRefresh: the system with device coordinators that also refresh      *)
(* themselves, for two entries that share stop 18031.  Such a refresh      *)
(* changes the device coordinator only, so Spec leaves it out.             *)
(***************************************************************************)
RefreshStops ==
    [e \in Entries |->
        IF e = "e1"
        THEN << StopConfig("18031", "N"), StopConfig("18031", "T") >>
        ELSE << StopConfig("18031", "T") >>]

InitRefresh ==
    /\ Init
    /\ entry_stops = RefreshStops

NextRefresh ==
    \/ \E e \in Entries, c \in ScanIntervals : SetupEntry(e, c)
    \/ \E e \in Entries, s \in Snapshots : FirstRefreshSucceeds(e, s)
    \/ \E e \in Entries, err \in ApiErrors : FirstRefreshFails(e, err)
    \/ \E p \in GlobalIds : TickBegin(p)
    \/ \E p \in GlobalIds, s \in Snapshots : TickSucceeds(p, s)
    \/ \E p \in GlobalIds, err \in ApiErrors : TickFails(p, err)
    \/ \E e \in Entries, ok \in BOOLEAN : UnloadEntry(e, ok)
    \/ \E v \in DeviceIds : DeviceRefresh(v)

SpecRefresh == InitRefresh /\ [][NextRefresh]_vars

(***************************************************************************)
(* SpecNotify: the system of SpecRefresh's entries with an upstream that   *)
(* also reports a visit whose MonitoredVehicleJourney is null.             *)
(***************************************************************************)
NotifySnapshots ==
    Snapshots \union { Data(3, << Visit("T", "v2"), NullJourneyVisit >>) }

InitNotify ==
    /\ Init
    /\ entry_stops = RefreshStops

NextNotify ==
    \/ \E e \in Entries, c \in ScanIntervals : SetupEntry(e, c)
    \/ \E e \in Entries, s \in NotifySnapshots : FirstRefreshSucceeds(e, s)
    \/ \E e \in Entries, err \in ApiErrors : FirstRefreshFails(e, err)
    \/ \E p \in GlobalIds : TickBegin(p)
    \/ \E p \in GlobalIds, s \in NotifySnapshots : TickSucceeds(p, s)
    \/ \E p \in GlobalIds, err \in ApiErrors : TickFails(p, err)
    \/ \E e \in Entries, ok \in BOOLEAN : UnloadEntry(e, ok)

SpecNotify == InitNotify /\ [][NextNotify]_vars

(***************************************************************************)
(* SpecOptions: the system set up with whatever entry.options holds under  *)
(* CONF_SCAN_INTERVAL.  async_setup_entry takes the value as it is; only   *)
(* the options form checks it against MIN_ and MAX_SCAN_INTERVAL.          *)
(***************************************************************************)
StoredScanIntervals == {10, DEFAULT_SCAN_INTERVAL, 600}

InitOptions ==
    /\ Init
    /\ entry_stops = RefreshStops

NextOptions ==
    \/ \E e \in Entries, c \in StoredScanIntervals : SetupEntry(e, c)
    \/ \E e \in Entries, s \in Snapshots : FirstRefreshSucceeds(e, s)
    \/ \E e \in Entries, err \in ApiErrors : FirstRefreshFails(e, err)
    \/ \E p \in GlobalIds : TickBegin(p)
    \/ \E p \in GlobalIds, s \in Snapshots : TickSucceeds(p, s)
    \/ \E p \in GlobalIds, err \in ApiErrors : TickFails(p, err)
    \/ \E e \in Entries, ok \in BOOLEAN : UnloadEntry(e, ok)

SpecOptions == InitOptions /\ [][NextOptions]_vars

(***************************************************************************)
(* SpecLive: the system running on without end.  The counters of refreshes *)
(* and requests stop counting at their bounds instead of stopping the      *)
(* timers.  A timer that is armed fires, and a request that was sent ends  *)
(* (the client gives up after its timeout): weak fairness of both.         *)
(***************************************************************************)
Min(a, b) == IF a < b THEN a ELSE b

TickBeginLive(p) ==
    /\ global_coords[p].created
    /\ global_coords[p].refresh_scheduled
    /\ global_coords' =
          [global_coords EXCEPT ![p] =
              [BeginRefresh(@) EXCEPT !.ticks = Min(global_coords[p].ticks + 1, MaxTicks)]]
    /\ api_calls' = [api_calls EXCEPT ![global_coords[p].stop_code] = Min(@ + 1, MaxCalls)]
    /\ UNCHANGED << entry_stops, entry_state, setup_task, global_coordinators,
                    entry_data, device_coords, next_global, next_device, filter_vars,
                    function_vars >>

\* what the data is does not matter for the timers: one response with visits
LiveSnapshots == { s \in Snapshots : s.visits # << >> }

\* the request of the refresh of p ends, with data or with an error
TickEnds(p) ==
    \/ \E s \in LiveSnapshots : TickSucceeds(p, s)
    \/ \E err \in ApiErrors : TickFails(p, err)

\* one entry, with two lines of one stop, is set up, unloaded and set up again
LiveEntries == {"e1"}

NextLive ==
    \/ \E e \in LiveEntries, c \in ScanIntervals : SetupEntry(e, c)
    \/ \E e \in LiveEntries, s \in LiveSnapshots : FirstRefreshSucceeds(e, s)
    \/ \E e \in LiveEntries, err \in ApiErrors : FirstRefreshFails(e, err)
    \/ \E p \in GlobalIds : TickBeginLive(p)
    \/ \E p \in GlobalIds : TickEnds(p)
    \/ \E e \in LiveEntries, ok \in BOOLEAN : UnloadEntry(e, ok)

Fairness ==
    \A p \in GlobalIds : WF_vars(TickBeginLive(p)) /\ WF_vars(TickEnds(p))

SpecLive == InitOptions /\ [][NextLive]_vars /\ Fairness

(***************************************************************************)
(* SpecFilter: _filter_data applied to any data and any line_id.           *)
(***************************************************************************)
VehicleRefs == {"v1", "v2"}
Visits == { Visit(l, v) : l \in LineRefs, v \in VehicleRefs }
VisitLists == UNION { [1..n -> Visits] : n \in 0..MaxVisits }
Timestamps == {1, 2}

InitFilter ==
    /\ entry_stops = [e \in Entries |-> << >>]
    /\ NotSetUp
    /\ filter_data \in {None} \cup { Data(ts, vs) : ts \in Timestamps, vs \in VisitLists }
    /\ filter_line \in LineIds
    /\ \E named \in BOOLEAN :
          filter_view = [NewDevice("e1", 1, StopConfig("18031", filter_line))
                           EXCEPT !.device_name_updated = named]
    /\ filter_calls = 0
    /\ filter_result = None
    /\ NoFunctionCall

\* self._filter_data() is called on the device coordinator
CallFilterData ==
    /\ filter_calls < MaxFilterCalls
    /\ filter_result' = FilterData(filter_data, filter_view.line_id)
    /\ filter_view' = FilterDataEffect(filter_view, filter_data)
    /\ filter_calls' = filter_calls + 1
    /\ UNCHANGED << entry_stops, entry_state, setup_task, global_coordinators,
                    entry_data, global_coords, device_coords, next_global,
                    next_device, api_calls, filter_data, filter_line, function_vars >>

NextFilter == CallFilterData

SpecFilter == InitFilter /\ [][NextFilter]_vars

(***************************************************************************)
(* SpecVehicleType: get_vehicle_type(operator, line_ref, mode) of const.py *)
(* applied to any arguments.  A str is the sequence of its characters;     *)
(* NoneValue is Python's None.                                             *)
(***************************************************************************)
NoneValue == << "None" >>

LowerLetters == << "a", "b", "c", "d", "e", "f", "g", "h", "i", "j", "k", "l", "m",
                   "n", "o", "p", "q", "r", "s", "t", "u", "v", "w", "x", "y", "z" >>
UpperLetters == << "A", "B", "C", "D", "E", "F", "G", "H", "I", "J", "K", "L", "M",
                   "N", "O", "P", "Q", "R", "S", "T", "U", "V", "W", "X", "Y", "Z" >>
Digits == << "0", "1", "2", "3", "4", "5", "6", "7", "8", "9" >>
\* characters that str.isdigit() accepts and int() rejects; "sup2" is the
\* one character SUPERSCRIPT TWO
OtherDigits == << "sup2" >>

\* the place of character c in the sequence chars (0: not in it)
IndexIn(chars, c) ==
    IF \E i \in 1..Len(chars) : chars[i] = c
    THEN CHOOSE i \in 1..Len(chars) : chars[i] = c
    ELSE 0

\* str.upper() and str.lower()
StrUpper(str) ==
    [i \in 1..Len(str) |->
        IF IndexIn(LowerLetters, str[i]) # 0
        THEN UpperLetters[IndexIn(LowerLetters, str[i])] ELSE str[i]]
StrLower(str) ==
    [i \in 1..Len(str) |->
        IF IndexIn(UpperLetters, str[i]) # 0
        THEN LowerLetters[IndexIn(UpperLetters, str[i])] ELSE str[i]]

\* sub in str
Contains(str, sub) ==
    \E i \in 0..(Len(str) - Len(sub)) : SubSeq(str, i + 1, i + Len(sub)) = sub

\* str.isdigit() and, for one character, str.isalpha()
IsDigit(str) ==
    /\ str # << >>
    /\ \A i \in 1..Len(str) : IndexIn(Digits, str[i]) # 0 \/ IndexIn(OtherDigits, str[i]) # 0
\* int(str) does not raise ValueError on a str that isdigit() accepts
IsDecimal(str) == \A i \in 1..Len(str) : IndexIn(Digits, str[i]) # 0
IsAlpha(c) == IndexIn(LowerLetters, c) # 0 \/ IndexIn(UpperLetters, c) # 0

\* int(str) of a str of decimal digits
RECURSIVE IntOf(_)
IntOf(str) ==
    IF str = << >>
    THEN 0
    ELSE 10 * IntOf(SubSeq(str, 1, Len(str) - 1)) + (IndexIn(Digits, str[Len(str)]) - 1)

\* "not x" of a str or None
Falsy(x) == x = NoneValue \/ x = << >>

\* the letters of the SF Muni rail lines
MuniRailLines == { << c >> : c \in {"N", "T", "L", "M", "K", "J", "S", "E", "F"} }

\* (mutant) every SF Muni line is a bus
MuniVehicleType_AllBus(line_ref) == "bus"

\* the branch operator_upper == "SF"
MuniVehicleType(line_ref) ==
    IF IsDigit(line_ref) THEN "bus"
    ELSE IF StrUpper(line_ref) \in MuniRailLines THEN "train"
    ELSE IF line_ref # << >> /\ IsAlpha(line_ref[1]) THEN "train"
    ELSE "bus"

\* the branch operator_upper == "SC"
VtaVehicleType(line_ref) ==
    IF \/ Contains(StrUpper(line_ref), << "B", "L", "U", "E" >>)
       \/ Contains(StrUpper(line_ref), << "G", "R", "E", "E", "N" >>)
       \/ Contains(StrUpper(line_ref), << "O", "R", "A", "N", "G", "E" >>)
    THEN "train"
    ELSE IF IsDigit(line_ref) /\ ~IsDecimal(line_ref) THEN "ValueError"
    ELSE IF IsDigit(line_ref) /\ IntOf(line_ref) >= 900 THEN "train"
    ELSE "bus"

\* the operator-specific logic, from operator_upper = operator.upper() on
OperatorVehicleType(operator, line_ref) ==
    LET operator_upper == StrUpper(operator)
    IN  IF operator_upper = << "B", "A" >> THEN "train"
        ELSE IF operator_upper = << "C", "M" >> THEN "train"
        ELSE IF operator_upper = << "S", "F" >> THEN MuniVehicleType(line_ref)
        ELSE IF operator_upper = << "A", "C" >> THEN "bus"
        ELSE IF operator_upper = << "C", "C" >> THEN "bus"
        ELSE IF operator_upper = << "S", "M" >> THEN "bus"
        ELSE IF operator_upper = << "S", "C" >> THEN VtaVehicleType(line_ref)
        ELSE "unknown"

\* "if mode:" with a mode that names rail, train, metro or bus
ModeVehicleType(mode) ==
    IF Falsy(mode) THEN ""
    ELSE LET mode_lower == StrLower(mode)
         IN  IF \/ Contains(mode_lower, << "r", "a", "i", "l" >>)
                \/ Contains(mode_lower, << "t", "r", "a", "i", "n" >>)
                \/ Contains(mode_lower, << "m", "e", "t", "r", "o" >>)
             THEN "train"
             ELSE IF Contains(mode_lower, << "b", "u", "s" >>) THEN "bus"
             ELSE ""

\* get_vehicle_type
GetVehicleType(operator, line_ref, mode) ==
    IF Falsy(line_ref) THEN "unknown"
    ELSE IF ModeVehicleType(mode) # "" THEN ModeVehicleType(mode)
    ELSE OperatorVehicleType(operator, line_ref)

Operators ==
    { << "B", "A" >>, << "b", "a" >>, << "C", "M" >>, << "c", "M" >>,
      << "S", "F" >>, << "s", "f" >>, << "A", "C" >>, << "a", "c" >>,
      << "C", "C" >>, << "S", "M" >>, << "S", "C" >>, << "G", "G" >>, << >> }

LineReferences ==
    { NoneValue, << >>, << "N" >>, << "n" >>, << "3", "8" >>, << "7" >>, << "5", "1" >>,
      << "K", "T" >>, << "5", "R" >>, << "-", "1" >>, << "B", "l", "u", "e" >>,
      << "9", "0", "1" >>, << "8", "9", "9" >>, << "o", "w", "l" >>, << "sup2" >> }

Modes ==
    { NoneValue, << >>, << "r", "a", "i", "l" >>, << "B", "u", "s" >>,
      << "l", "i", "g", "h", "t", "R", "a", "i", "l" >>, << "M", "E", "T", "R", "O" >>,
      << "t", "r", "a", "i", "n" >>, << "f", "e", "r", "r", "y" >> }

InitVehicleType ==
    /\ entry_stops = [e \in Entries |-> << >>]
    /\ NotSetUp
    /\ filter_data = None
    /\ filter_line = ""
    /\ filter_view = BlankDevice
    /\ filter_calls = 0
    /\ filter_result = None
    /\ vt_operator \in Operators
    /\ vt_line_ref \in LineReferences
    /\ vt_mode \in Modes
    /\ vt_result = ""
    /\ rq_response = NoResponse
    /\ rq_result = NoResult
    /\ entry_config = [e \in Entries |-> NoConfig]
    /\ stagger = NoStagger
    /\ unload_result = NotUnloaded

CallGetVehicleType ==
    /\ vt_result = ""
    /\ vt_result' = GetVehicleType(vt_operator, vt_line_ref, vt_mode)
    /\ UNCHANGED << entry_stops, entry_state, setup_task, global_coordinators,
                    entry_data, global_coords, device_coords, next_global,
                    next_device, api_calls, filter_vars,
                    vt_operator, vt_line_ref, vt_mode, rq_response, rq_result,
                    entry_config, stagger, unload_result >>

NextVehicleType == CallGetVehicleType

SpecVehicleType == InitVehicleType /\ [][NextVehicleType]_vars

(***************************************************************************)
(* SpecRequest: one refresh of a GlobalStopCoordinator against any answer  *)
(* of the 511 API: _make_request of api.py, and what _async_update_data    *)
(* makes of its outcome.  A text is the sequence of its tokens (words,     *)
(* JSON tokens, whitespace characters, and "BOM" for the one character     *)
(* U+FEFF).                                                                *)
(***************************************************************************)
Whitespace == {" ", "\n", "\t"}

\* text.replace("\ufeff", "")
ReplaceBOM(text) == SelectSeq(text, LAMBDA c : c # "BOM")

\* text.strip()
RECURSIVE LStrip(_)
LStrip(text) ==
    IF text # << >> /\ Head(text) \in Whitespace THEN LStrip(Tail(text)) ELSE text
RECURSIVE RStrip(_)
RStrip(text) ==
    IF text # << >> /\ text[Len(text)] \in Whitespace
    THEN RStrip(SubSeq(text, 1, Len(text) - 1))
    ELSE text
Strip(text) == RStrip(LStrip(text))

\* text.startswith(prefix)
StartsWith(text, prefix) ==
    Len(text) >= Len(prefix) /\ SubSeq(text, 1, Len(prefix)) = prefix

\* "The allowed number of requests"
RateLimitSentence == << "The", " ", "allowed", " ", "number", " ", "of", " ", "requests" >>

\* JSON values: a dict, a list, null
JsonDict(items) == [kind |-> "dict", items |-> items]
JsonList == [kind |-> "list"]
JsonNull == [kind |-> "null"]
EmptyDict == JsonDict(<< >>)

\* the JSON documents of the model and what json.loads makes of them
EmptyObjectText == << "{", "}" >>
EmptyArrayText == << "[", "]" >>
NullDeliveryText == << "{", "ServiceDelivery", ":", "null", "}" >>
DeliveryText ==
    << "{", "ServiceDelivery", ":", "{", "StopMonitoringDelivery", ":", "{", "}", "}", "}" >>
TruncatedText == << "{", "ServiceDelivery", ":" >>

JsonLoads(text) ==
    IF text = EmptyObjectText THEN EmptyDict
    ELSE IF text = EmptyArrayText THEN JsonList
    ELSE IF text = NullDeliveryText THEN JsonDict([ServiceDelivery |-> JsonNull])
    ELSE IF text = DeliveryText
    THEN JsonDict([ServiceDelivery |-> JsonDict([StopMonitoringDelivery |-> EmptyDict])])
    ELSE [kind |-> "JSONDecodeError"]

\* an outcome of _make_request: an exception raised, or a value returned
Raises(exception) == [raised |-> exception, returned |-> FALSE, value |-> JsonNull]
Returns(value) == [raised |-> "", returned |-> TRUE, value |-> value]

\* (mutant) the rate-limit sentence is looked for before the status
StatusChecks_AfterSentence(response, outcome) ==
    IF outcome.raised = "Transit511RateLimitError" THEN outcome
    ELSE IF response.status = 429 THEN Raises("Transit511RateLimitError")
    ELSE IF response.status = 401 \/ response.status = 403 THEN Raises("Transit511AuthError")
    ELSE IF response.status >= 400 THEN Raises("Transit511ApiError")
    ELSE outcome

\* the checks of the status of the response
StatusChecks(response, outcome) ==
    IF response.status = 429 THEN Raises("Transit511RateLimitError")
    ELSE IF response.status = 401 \/ response.status = 403 THEN Raises("Transit511AuthError")
    ELSE IF response.status >= 400 THEN Raises("Transit511ApiError")
    ELSE outcome

\* the checks of the text of the response, from "text = await response.text()"
BodyChecks(response) ==
    IF response.read = "TimeoutError" \/ response.read = "ClientError"
    THEN Raises("Transit511ApiError")
    ELSE IF response.read = "UnicodeDecodeError"
    THEN Raises("UnicodeDecodeError")
    ELSE LET text == Strip(ReplaceBOM(response.body))
         IN  IF StartsWith(text, RateLimitSentence) THEN Raises("Transit511RateLimitError")
             ELSE IF text = << >> THEN Raises("Transit511ApiError")
             ELSE IF ~StartsWith(text, << "{" >>) /\ ~StartsWith(text, << "[" >>)
             THEN Raises("Transit511ApiError")
             ELSE IF JsonLoads(text).kind = "JSONDecodeError"
             THEN Raises("Transit511ApiError")
             ELSE Returns(JsonLoads(text))

\* _make_request
MakeRequest(response) ==
    IF response.get = "TimeoutError" \/ response.get = "ClientError"
    THEN Raises("Transit511ApiError")
    ELSE StatusChecks(response, BodyChecks(response))

\* Transit511AuthError and Transit511RateLimitError are Transit511ApiErrors
ApiErrorClasses == {"Transit511ApiError", "Transit511AuthError", "Transit511RateLimitError"}

\* value.get(key, default): "AttributeError" unless value is a dict
DictGet(value, key, default) ==
    IF value.kind # "dict" THEN [kind |-> "AttributeError"]
    ELSE IF key \in DOMAIN value.items THEN value.items[key]
    ELSE default

\* (mutant) every exception of the request becomes UpdateFailed
UpdateData_CatchesAll(outcome) ==
    IF outcome.returned THEN "data" ELSE "UpdateFailed"

\* the try statement of GlobalStopCoordinator._async_update_data: how the
\* refresh ends ("data": it returns the data of the stop)
UpdateData(outcome) ==
    IF outcome.raised \in ApiErrorClasses THEN "UpdateFailed"
    ELSE IF ~outcome.returned THEN outcome.raised
    ELSE LET service == DictGet(outcome.value, "ServiceDelivery", EmptyDict)
             delivery ==
                 IF service.kind = "AttributeError"
                 THEN service
                 ELSE DictGet(service, "StopMonitoringDelivery", EmptyDict)
             visits ==
                 IF delivery.kind = "AttributeError"
                 THEN delivery
                 ELSE DictGet(delivery, "MonitoredStopVisit", JsonList)
         IN  IF visits.kind = "AttributeError" THEN "AttributeError" ELSE "data"

Statuses == {200, 401, 403, 404, 429, 500}
Prefixes == { << >>, << "BOM" >>, << " " >>, << "BOM", "\n" >>, << "\t", "BOM" >> }
Suffixes == { << >>, << "\n" >>, << " ", "BOM" >> }
Texts ==
    { << >>, RateLimitSentence, RateLimitSentence \o << " ", "exceeded" >>,
      << "Error", ":", " " >> \o RateLimitSentence, << "<html>" >>,
      EmptyObjectText, EmptyArrayText, NullDeliveryText, DeliveryText, TruncatedText,
      << "{", "BOM", "}" >> }
Bodies == { pre \o text \o suf : pre \in Prefixes, text \in Texts, suf \in Suffixes }

\* what the session can answer: no response, a response whose text cannot
\* be read, a response with a text
Responses ==
    { [get |-> g, status |-> 0, read |-> "", body |-> << >>] :
        g \in {"TimeoutError", "ClientError"} }
    \union
    { [get |-> "response", status |-> st, read |-> rd, body |-> << >>] :
        st \in Statuses, rd \in {"TimeoutError", "ClientError", "UnicodeDecodeError"} }
    \union
    { [get |-> "response", status |-> st, read |-> "text", body |-> b] :
        st \in Statuses, b \in Bodies }

InitRequest ==
    /\ entry_stops = [e \in Entries |-> << >>]
    /\ NotSetUp
    /\ filter_data = None
    /\ filter_line = ""
    /\ filter_view = BlankDevice
    /\ filter_calls = 0
    /\ filter_result = None
    /\ vt_operator = << >>
    /\ vt_line_ref = << >>
    /\ vt_mode = << >>
    /\ vt_result = ""
    /\ rq_response \in Responses
    /\ rq_result = NoResult
    /\ entry_config = [e \in Entries |-> NoConfig]
    /\ stagger = NoStagger
    /\ unload_result = NotUnloaded

\* one refresh: _async_update_data awaits get_stop_monitoring, that is
\* _make_request
AsyncUpdateData ==
    /\ rq_result = NoResult
    /\ rq_result' = [raised |-> MakeRequest(rq_response).raised,
                     returned |-> MakeRequest(rq_response).returned,
                     update |-> UpdateData(MakeRequest(rq_response))]
    /\ UNCHANGED << entry_stops, entry_state, setup_task, global_coordinators,
                    entry_data, global_coords, device_coords, next_global,
                    next_device, api_calls, filter_vars,
                    vt_operator, vt_line_ref, vt_mode, vt_result, rq_response,
                    entry_config, stagger, unload_result >>

NextRequest == AsyncUpdateData

SpecRequest == InitRequest /\ [][NextRequest]_vars

(***************************************************************************)
(* SpecFlow: config entries as the config flow creates them                *)
(* (async_step_entity_selection), set up and unloaded.                     *)
(***************************************************************************)
\* data= of async_create_entry for stop monitoring: the stop and the line
\* are stored under CONF_STOP_CODE and CONF_LINE_ID
FlowEntryData(stop_code, line_id) ==
    [monitoring_type |-> "stop", stop_code |-> stop_code, line_id |-> line_id]

\* entry.data.get(CONF_STOPS, []) of async_setup_entry and async_unload_entry
ConfiguredStops(data) == IF "stops" \in DOMAIN data THEN data.stops ELSE << >>

\* unique_id: f"{operator}_{stop_code}" and f"_{line_id}" if line_id
UniqueId(data) == << data.stop_code, data.line_id >>

\* the flow ends in async_create_entry unless the unique id is configured
CreateEntry(e, stop_code, line_id) ==
    /\ entry_config[e] = NoConfig
    /\ \A f \in Entries :
          entry_config[f] # NoConfig
          => UniqueId(entry_config[f]) # UniqueId(FlowEntryData(stop_code, line_id))
    /\ entry_config' = [entry_config EXCEPT ![e] = FlowEntryData(stop_code, line_id)]
    /\ entry_stops' = [entry_stops EXCEPT ![e] = ConfiguredStops(FlowEntryData(stop_code, line_id))]
    /\ UNCHANGED << entry_state, setup_task, global_coordinators, entry_data,
                    global_coords, device_coords, next_global, next_device,
                    api_calls, filter_vars, vt_operator, vt_line_ref, vt_mode,
                    vt_result, rq_response, rq_result, stagger, unload_result >>

InitFlow ==
    /\ entry_stops = [e \in Entries |-> << >>]
    /\ NotSetUp
    /\ filter_data = None
    /\ filter_line = ""
    /\ filter_view = BlankDevice
    /\ filter_calls = 0
    /\ filter_result = None
    /\ NoFunctionCall

\* the options of a created entry hold DEFAULT_SCAN_INTERVAL
NextFlow ==
    \/ \E e \in Entries, s \in StopCodes, l \in LineIds : CreateEntry(e, s, l)
    \/ \E e \in Entries :
          entry_config[e] # NoConfig /\ SetupEntry(e, DEFAULT_SCAN_INTERVAL)
    \/ \E e \in Entries, ok \in BOOLEAN : UnloadEntry(e, ok)

SpecFlow == InitFlow /\ [][NextFlow]_vars

(***************************************************************************)
(* SpecStagger: a GlobalStopCoordinator and a Transit511VehicleCoordinator *)
(* constructed with the same scan interval, whose refreshes end the same   *)
(* way.                                                                    *)
(***************************************************************************)
\* Transit511VehicleCoordinator.__init__
NewVehicle(scan_interval) ==
    [ scan_interval |-> scan_interval, first_update_done |-> FALSE,
      update_interval |-> scan_interval, last_update_success |-> TRUE ]

\* (mutant) the vehicle coordinator has no 60 s interval after its first update
VehicleStaggerInterval_NoWarmup(c) ==
    IF c.first_update_done
    THEN IF c.update_interval = 60
         THEN [c EXCEPT !.update_interval = c.scan_interval]
         ELSE c
    ELSE [c EXCEPT !.first_update_done = TRUE]

\* Transit511VehicleCoordinator._async_update_data, the staggering of the
\* interval before the request
VehicleStaggerInterval(c) ==
    IF c.first_update_done
    THEN IF c.update_interval = 60
         THEN [c EXCEPT !.update_interval = c.scan_interval]
         ELSE c
    ELSE [c EXCEPT !.first_update_done = TRUE, !.update_interval = 60]

\* the refresh of the vehicle coordinator ends: with the data, or
\* Transit511ApiError -> UpdateFailed
VehicleRefreshEnds(c, outcome) ==
    [c EXCEPT !.last_update_success = (outcome = "data")]

\* the refresh of the stop coordinator ends the same way
StopRefreshEnds(g, outcome) ==
    IF outcome = "data"
    THEN RefreshSucceeded(g, Data(1, << >>))
    ELSE RefreshFailed(g, outcome)

Outcomes == {"data"} \union ApiErrors

StaggerScanIntervals == ScanIntervals \union StoredScanIntervals

InitStagger ==
    /\ entry_stops = [e \in Entries |-> << >>]
    /\ NotSetUp
    /\ filter_data = None
    /\ filter_line = ""
    /\ filter_view = BlankDevice
    /\ filter_calls = 0
    /\ filter_result = None
    /\ vt_operator = << >>
    /\ vt_line_ref = << >>
    /\ vt_mode = << >>
    /\ vt_result = ""
    /\ rq_response = NoResponse
    /\ rq_result = NoResult
    /\ entry_config = [e \in Entries |-> NoConfig]
    /\ \E c \in StaggerScanIntervals :
          stagger = [ scan_interval |-> c, outcomes |-> << >>,
                      stop |-> NewGlobal("18031", c), vehicle |-> NewVehicle(c) ]
    /\ unload_result = NotUnloaded

\* both coordinators refresh, and both requests end with the outcome
RefreshBoth(outcome) ==
    /\ Len(stagger.outcomes) < MaxTicks
    /\ stagger' = [stagger EXCEPT
                      !.outcomes = Append(@, outcome),
                      !.stop = StopRefreshEnds(BeginRefresh(@), outcome),
                      !.vehicle = VehicleRefreshEnds(VehicleStaggerInterval(@), outcome)]
    /\ UNCHANGED << entry_stops, entry_state, setup_task, global_coordinators,
                    entry_data, global_coords, device_coords, next_global,
                    next_device, api_calls, filter_vars, vt_operator, vt_line_ref,
                    vt_mode, vt_result, rq_response, rq_result, entry_config,
                    unload_result >>

NextStagger == \E outcome \in Outcomes : RefreshBoth(outcome)

SpecStagger == InitStagger /\ [][NextStagger]_vars

(***************************************************************************)
(* SpecUnload: the system of SpecRefresh's entries, with what              *)
(* async_unload_entry returns.                                             *)
(***************************************************************************)
\* "return unload_ok"
Returned(unload_ok) == IF unload_ok THEN "True" ELSE "False"

UnloadEntryReturns(e, unload_ok) ==
    /\ UnloadEffect(e, unload_ok)
    /\ unload_result' = [unload_result EXCEPT ![e] = Returned(unload_ok)]
    /\ UNCHANGED << vt_operator, vt_line_ref, vt_mode, vt_result, rq_response,
                    rq_result, entry_config, stagger >>

InitUnload ==
    /\ Init
    /\ entry_stops = RefreshStops

NextUnload ==
    \/ \E e \in Entries : SetupEntry(e, DEFAULT_SCAN_INTERVAL)
    \/ \E e \in Entries, s \in LiveSnapshots : FirstRefreshSucceeds(e, s)
    \/ \E e \in Entries, err \in ApiErrors : FirstRefreshFails(e, err)
    \/ \E p \in GlobalIds : TickBegin(p)
    \/ \E p \in GlobalIds : TickEnds(p)
    \/ \E e \in Entries, ok \in BOOLEAN : UnloadEntryReturns(e, ok)

SpecUnload == InitUnload /\ [][NextUnload]_vars

(***************************************************************************)
(* Properties.                                                             *)
(***************************************************************************)
\* a GlobalStopCoordinator that still has device coordinators listening (its
\* timer runs exactly as long as it has listeners)
Active(p) == global_coords[p].created /\ global_coords[p].listeners # << >>

\* the device coordinators a loaded entry holds in its entry_data
Held(v) ==
    /\ device_coords[v].created
    /\ entry_state[device_coords[v].entry] = "loaded"
    /\ \E k \in DeviceKeys : entry_data[device_coords[v].entry][k] = v

\* C1: at most one GlobalStopCoordinator that is polling or has device
\* coordinators attached exists for one (operator, stop) at any time.
C1_AtMostOnePollerPerKey ==
    \A p, q \in GlobalIds :
        (Active(p) /\ Active(q) /\ global_coords[p].stop_code = global_coords[q].stop_code)
            => p = q

\* C2: a setup that requests a key while another setup is suspended in the
\* initial fetch for that key sends no second request and waits for the same
\* coordinator instance.
C2_ConcurrentSetupsShareOneFetch ==
    \A e1, e2 \in Entries :
        ( /\ e1 # e2
          /\ setup_task[e1].idx > 0
          /\ setup_task[e2].idx > 0
          /\ entry_stops[e1][setup_task[e1].idx].stop_code
                = entry_stops[e2][setup_task[e2].idx].stop_code )
            => setup_task[e1].coord = setup_task[e2].coord

\* the stop the setup of e is waiting for in a first refresh ("" when it is not)
AwaitedStop(e) ==
    IF setup_task[e].idx > 0 THEN entry_stops[e][setup_task[e].idx].stop_code ELSE ""

\* C3: a device coordinator created for a key that has a registry entry is
\* bound to the coordinator stored there, no request is sent for the key and
\* the stored coordinator's data, update_interval, scan_interval and
\* first-update flag stay as they were.
C3_ReuseLeavesPollerUnchanged ==
    [][ \A v \in DeviceIds :
          LET d == device_coords'[v]
              p == global_coordinators[d.stop_code]
          IN  ( /\ ~device_coords[v].created
                /\ d.created
                /\ p # 0
                /\ AwaitedStop(d.entry) # d.stop_code )
              => /\ d.global_coordinator = p
                 /\ global_coordinators'[d.stop_code] = p
                 /\ api_calls'[d.stop_code] = api_calls[d.stop_code]
                 /\ global_coords'[p].data = global_coords[p].data
                 /\ global_coords'[p].update_interval = global_coords[p].update_interval
                 /\ global_coords'[p].scan_interval = global_coords[p].scan_interval
                 /\ global_coords'[p].first_update_done = global_coords[p].first_update_done
                 /\ global_coords'[p].ticks = global_coords[p].ticks
      ]_vars

\* a setup with its own scan interval has reused the coordinator stored for
\* stop 18031 (and is now suspended at its second stop)
C3_Witness ==
    \E e \in Entries :
        LET p == global_coordinators["18031"]
        IN  /\ setup_task[e].idx = 2
            /\ p # 0
            /\ Len(global_coords[p].listeners) >= 2
            /\ device_coords[global_coords[p].listeners[Len(global_coords[p].listeners)]].entry = e
            /\ global_coords[p].scan_interval # setup_task[e].scan_interval

\* C4: when an entry is unloaded, the registry entry of every stop of every
\* other loaded entry stays as it is.
C4_UnloadKeepsSharedPollers ==
    [][ \A e \in Entries :
          (entry_state[e] = "loaded" /\ entry_state'[e] = "not_loaded")
          => \A o \in Entries \ {e} :
                entry_state[o] = "loaded"
                => \A i \in 1..Len(entry_stops[o]) :
                      global_coordinators'[entry_stops[o][i].stop_code]
                        = global_coordinators[entry_stops[o][i].stop_code]
      ]_vars

\* C5: the delay scheduled after a coordinator's first fetch is 60, the delay
\* scheduled after its second and every later fetch is its scan_interval.
C5_WarmupThenConfigured ==
    \A p \in GlobalIds :
        (global_coords[p].created /\ global_coords[p].refresh_scheduled)
        => global_coords[p].scheduled_delay =
              IF global_coords[p].ticks = 1 THEN 60 ELSE global_coords[p].scan_interval

\* a coordinator configured with 300 has its third refresh behind it and
\* waits 300 for the next
C5_Witness ==
    \E p \in GlobalIds :
        /\ global_coords[p].refresh_scheduled
        /\ global_coords[p].ticks = 3
        /\ global_coords[p].scan_interval = 300
        /\ global_coords[p].scheduled_delay = 300

\* the refresh of p that is in flight fails in this step
FetchFails(p) ==
    \E err \in ApiErrors :
        \/ TickFails(p, err)
        \/ \E e \in Entries : setup_task[e].coord = p /\ FirstRefreshFails(e, err)

\* the refresh of p that is in flight succeeds in this step
FetchSucceeds(p) ==
    \E snapshot \in Snapshots :
        \/ TickSucceeds(p, snapshot)
        \/ \E e \in Entries : setup_task[e].coord = p /\ FirstRefreshSucceeds(e, snapshot)

\* C6: a failed fetch leaves the coordinator's data as it was and sets
\* last_update_success to false; data changes only on a successful fetch.
C6_FailureKeepsSnapshot ==
    [][ \A p \in GlobalIds :
          /\ FetchFails(p) => /\ global_coords'[p].data = global_coords[p].data
                              /\ ~global_coords'[p].last_update_success
          /\ global_coords'[p].data # global_coords[p].data => FetchSucceeds(p)
      ]_vars

\* a coordinator that holds visits and whose last refresh failed
C6_Witness ==
    \E p \in GlobalIds :
        /\ global_coords[p].created
        /\ ~global_coords[p].fetching
        /\ ~global_coords[p].last_update_success
        /\ global_coords[p].data.visits # << >>

\* C7: while the last refresh of a coordinator has failed, every device
\* coordinator listening to it reports last_update_success false.
C7_ViewsReportFailure ==
    \A v \in DeviceIds :
        LET d == device_coords[v]
        IN  ( /\ d.created
              /\ ~d.data.is_none
              /\ ~global_coords[d.global_coordinator].fetching
              /\ ~global_coords[d.global_coordinator].last_update_success )
            => ~d.last_update_success

\* the delay a refresh of g would schedule had it succeeded
DelayAfterSuccess(g, snapshot) == ScheduleRefresh(RefreshSucceeded(g, snapshot)).scheduled_delay

RECURSIVE TicksOf(_, _)
TicksOf(S, s) ==
    IF S = {}
    THEN 0
    ELSE LET p == CHOOSE x \in S : TRUE
         IN  (IF global_coords[p].stop_code = s THEN global_coords[p].ticks ELSE 0)
             + TicksOf(S \ {p}, s)

\* C10: the device coordinators of loaded entries configured for one stop with
\* different line filters listen to one coordinator, each holds only visits of
\* its own line, and one request is sent per refresh of a coordinator.
C10_ViewsShareOnePoller ==
    /\ \A v, w \in DeviceIds :
          (Held(v) /\ Held(w) /\ device_coords[v].stop_code = device_coords[w].stop_code)
          => device_coords[v].global_coordinator = device_coords[w].global_coordinator
    /\ \A v \in DeviceIds :
          (device_coords[v].created /\ device_coords[v].line_id # "")
          => \A i \in 1..Len(device_coords[v].data.visits) :
                device_coords[v].data.visits[i].LineRef = device_coords[v].line_id
    /\ \A s \in StopCodes : api_calls[s] = TicksOf(GlobalIds, s)

\* the setup of e is suspended in this step, in the first refresh of a
\* coordinator it has just constructed
Requests(e) == setup_task'[e].idx > 0 /\ setup_task'[e] # setup_task[e]

\* C11: an unload leaves none of the entry's stop keys in the registry; a
\* setup that then asks for an absent key constructs a new coordinator, which
\* is in its first refresh with the 60 s interval, no data and no listeners,
\* and one request more has been sent for the stop.
C11_ReleaseThenFreshPoller ==
    [][ \A e \in Entries :
          /\ (entry_state[e] = "loaded" /\ entry_state'[e] = "not_loaded")
              => \A i \in 1..Len(entry_stops[e]) :
                    global_coordinators'[entry_stops[e][i].stop_code] = 0
          /\ ( /\ entry_state[e] \in {"not_loaded", "setup_retry"}
                /\ entry_state'[e] = "setup_in_progress"
                /\ global_coordinators[entry_stops[e][1].stop_code] = 0 )
              => (Requests(e) /\ setup_task'[e].idx = 1)
          /\ Requests(e)
              => LET p == setup_task'[e].coord
                     s == entry_stops[e][setup_task'[e].idx].stop_code
                 IN  /\ p = next_global
                     /\ next_global' = next_global + 1
                     /\ global_coordinators[s] = 0
                     /\ ~global_coords[p].created
                     /\ global_coords'[p] =
                           [NewGlobal(s, setup_task'[e].scan_interval)
                              EXCEPT !.first_update_done = TRUE,
                                     !.update_interval = WARMUP_INTERVAL,
                                     !.fetching = TRUE, !.ticks = 1]
                     /\ api_calls'[s] = api_calls[s] + 1
      ]_vars

\* the only entry ever set up was unloaded and set up again: its new device
\* coordinator listens to a second coordinator for the same stop, which the
\* registry now holds and which has done its first refresh only
C11_Witness ==
    \E e \in Entries, v, w \in DeviceIds :
        /\ \A u \in DeviceIds : device_coords[u].created => device_coords[u].entry = e
        /\ \A o \in Entries \ {e} : entry_state[o] = "not_loaded"
        /\ device_coords[v].created /\ device_coords[w].created
        /\ device_coords[v].stop_code = device_coords[w].stop_code
        /\ device_coords[v].line_id = device_coords[w].line_id
        /\ device_coords[v].global_coordinator # device_coords[w].global_coordinator
        /\ global_coordinators[device_coords[w].stop_code] = device_coords[w].global_coordinator
        /\ global_coords[device_coords[w].global_coordinator].ticks = 1
        /\ entry_state[e] = "loaded"

\* C12: a coordinator whose key an unload has removed from the registry starts
\* no refresh any more: every refresh is started by the coordinator the
\* registry holds for the stop or by one a loaded entry's device coordinator
\* still listens to.
C12_ReleasedPollerStops ==
    [][ \A p \in GlobalIds :
          (global_coords[p].created /\ global_coords'[p].ticks > global_coords[p].ticks)
          => \/ global_coordinators[global_coords[p].stop_code] = p
             \/ \E i \in 1..Len(global_coords[p].listeners) : Held(global_coords[p].listeners[i])
      ]_vars

\* the device coordinators that listen to some coordinator
Listening ==
    { v \in DeviceIds : \E p \in GlobalIds :
                            \E i \in 1..Len(global_coords[p].listeners) :
                                global_coords[p].listeners[i] = v }

\* C13: when an entry is unloaded, none of its device coordinators is a
\* listener of any coordinator afterwards, and the device coordinators of the
\* other entries listen as before.
C13_UnloadCancelsOwnSubscriptions ==
    [][ \A e \in Entries :
          (entry_state[e] = "loaded" /\ entry_state'[e] = "not_loaded")
          => /\ \A v \in Listening' : device_coords[v].entry # e
             /\ \A v \in Listening : device_coords[v].entry # e => v \in Listening'
      ]_vars

\* C14: unloading an entry a second time raises nothing and changes neither
\* global_coordinators nor the entry table: the state an unload leaves is a
\* fixed point of the unload, and so is every state in which the entry has no
\* key in the registry and no table (never set up, or already unloaded).
C14_UnloadIsIdempotent ==
    [][ \A e \in Entries :
          LET again == Unloaded(global_coordinators', entry_data', e)
              noop == Unloaded(global_coordinators, entry_data, e)
          IN  /\ (entry_state[e] = "loaded" /\ entry_state'[e] # "loaded")
                 => /\ entry_state'[e] = "not_loaded"
                    /\ ~again.raised
                    /\ again.reg = global_coordinators'
                    /\ again.ed = entry_data'
              /\ ( /\ \A i \in 1..Len(entry_stops[e]) :
                         global_coordinators[entry_stops[e][i].stop_code] = 0
                   /\ entry_data[e] = NoEntryData )
                 => /\ ~noop.raised
                    /\ noop.reg = global_coordinators
                    /\ noop.ed = entry_data
      ]_vars

\* an entry that names stop 18031 twice has been unloaded (the second pop of
\* its unload already met a missing key) while the other entry is loaded
C14_Witness ==
    \E e \in Entries :
        /\ Len(entry_stops[e]) = 2
        /\ entry_stops[e][1].stop_code = entry_stops[e][2].stop_code
        /\ entry_state[e] = "not_loaded"
        /\ entry_data[e] = NoEntryData
        /\ \E v \in DeviceIds : device_coords[v].created /\ device_coords[v].entry = e
        /\ \E o \in Entries \ {e} : entry_state[o] = "loaded"
        /\ global_coordinators["18031"] = 0

\* C15: the name of a device coordinator's device is updated exactly once, when
\* its filtered visits are non-empty for the first time (which is when
\* _device_name_updated is set), and never before or again.
C15_RenamedExactlyOnce ==
    \A v \in DeviceIds :
        device_coords[v].created
        => device_coords[v].renames = IF device_coords[v].device_name_updated THEN 1 ELSE 0

\* C16: a call of _filter_data changes nothing of the device coordinator it is
\* called on (its _device_name_updated flag, the name of its device), and a
\* second call on the same data returns what the first returned.
C16_FilterDataIsPure ==
    [][ filter_calls' # filter_calls
        => /\ filter_view' = filter_view
           /\ filter_calls > 0 => filter_result' = filter_result
      ]_vars

\* C17: every get_stop_monitoring request is sent by a refresh that a
\* GlobalStopCoordinator starts in the same step, one request per refresh; a
\* step that only creates, notifies or refreshes device coordinators sends
\* none.
C17_OnlyPollersFetch ==
    [][ \A s \in StopCodes :
          api_calls'[s] # api_calls[s]
          => /\ api_calls'[s] = api_calls[s] + 1
             /\ \E p \in GlobalIds :
                   /\ global_coords'[p].stop_code = s
                   /\ global_coords'[p].fetching
                   /\ global_coords'[p].ticks = global_coords[p].ticks + 1
      ]_vars

\* a device coordinator has refreshed itself before its global coordinator
\* notified it (the global coordinator has only done its first refresh), and
\* one request has been sent for the stop
C17_Witness ==
    \E v \in DeviceIds :
        LET d == device_coords[v]
        IN  /\ d.created
            /\ ~d.data.is_none
            /\ d.data.visits # << >>
            /\ global_coords[d.global_coordinator].ticks = 1
            /\ api_calls[d.stop_code] = 1

\* C18: called while the global coordinator has no data, _filter_data returns
\* a dict with no visits and no response_timestamp, whatever the line_id, and
\* leaves the device coordinator as it was.
C18_NoDataGivesEmptyResult ==
    (filter_calls > 0 /\ filter_data.is_none)
    => /\ ~filter_result.is_none
       /\ filter_result.visits = << >>
       /\ filter_result.response_timestamp = 0
       /\ filter_view.renames = 0

\* _filter_data was called with line_id N while there was no data
C18_Witness ==
    /\ filter_data.is_none
    /\ filter_line = "N"
    /\ filter_calls = 1
    /\ filter_result = Data(0, << >>)

\* C19: when async_setup_entry returns (the entry becomes loaded), every
\* global coordinator its device coordinators listen to has finished its first
\* refresh and every device coordinator in the entry's table holds data: the
\* filtered data of its global coordinator.
C19_ViewsCurrentAfterSetup ==
    [][ \A e \in Entries :
          (entry_state[e] # "loaded" /\ entry_state'[e] = "loaded")
          => \A k \in DeviceKeys :
                entry_data'[e][k] # 0
                => LET d == device_coords'[entry_data'[e][k]]
                       g == global_coords'[d.global_coordinator]
                   IN  /\ g.ticks >= 1
                       /\ ~g.data.is_none
                       /\ d.data = FilterData(g.data, d.line_id)
      ]_vars

\* C20: at the end of every refresh a timer tick started, successful or not,
\* each listener of the global coordinator is called once, in the order the
\* listeners were added.
C20_EveryTickNotifiesAll ==
    [][ \A p \in GlobalIds :
          (InTick(p) /\ ~global_coords'[p].fetching)
          => global_coords'[p].notified = global_coords'[p].listeners
      ]_vars

Steady(p) ==
    /\ global_coords[p].first_update_done
    /\ global_coords[p].ticks >= 2
    /\ global_coords[p].update_interval = global_coords[p].scan_interval

C23_DuplicateSubscriptionRejected ==
    \A v, w \in DeviceIds :
        ( /\ device_coords[v].created
          /\ device_coords[w].created
          /\ device_coords[v].global_coordinator = device_coords[w].global_coordinator
          /\ device_coords[v].line_id = device_coords[w].line_id )
        => v = w

\* the operators that run one kind of vehicle only
FixedTrainOperators == { << "B", "A" >>, << "C", "M" >> }
FixedBusOperators == { << "A", "C" >>, << "C", "C" >>, << "S", "M" >> }

\* C24: without a mode, get_vehicle_type returns "train" for BA and CM and
\* "bus" for AC, CC and SM, whatever the line reference (empty and None
\* included) and whatever the letter case of the operator.
C24_FixedModeOperators ==
    (vt_result # "" /\ Falsy(vt_mode))
    => /\ StrUpper(vt_operator) \in FixedTrainOperators => vt_result = "train"
       /\ StrUpper(vt_operator) \in FixedBusOperators => vt_result = "bus"

\* the mode names a train (rail, train or metro), or a bus
NamesTrain(mode) ==
    /\ ~Falsy(mode)
    /\ \/ Contains(StrLower(mode), << "r", "a", "i", "l" >>)
       \/ Contains(StrLower(mode), << "t", "r", "a", "i", "n" >>)
       \/ Contains(StrLower(mode), << "m", "e", "t", "r", "o" >>)
NamesBus(mode) == ~Falsy(mode) /\ Contains(StrLower(mode), << "b", "u", "s" >>)

\* C25: a mode that contains rail, train or metro gives "train", and
\* otherwise one that contains bus gives "bus", for every operator and every
\* line reference: the mode is looked at before anything else.
C25_ModeHintFirst ==
    vt_result # ""
    => /\ NamesTrain(vt_mode) => vt_result = "train"
       /\ (NamesBus(vt_mode) /\ ~NamesTrain(vt_mode)) => vt_result = "bus"

\* C26: for operator SF without a mode, a line reference of digits only is
\* a "bus", and one that is a known rail letter or begins with a letter is a
\* "train".
C26_MuniByLineReference ==
    (/\ vt_result # ""
     /\ StrUpper(vt_operator) = << "S", "F" >>
     /\ Falsy(vt_mode)
     /\ ~Falsy(vt_line_ref))
    => /\ IsDigit(vt_line_ref) => vt_result = "bus"
       /\ (\/ StrUpper(vt_line_ref) \in MuniRailLines
           \/ IsAlpha(vt_line_ref[1])) => vt_result = "train"

\* a lower-case SF with the letter-leading line reference "owl" was classified
C26_Witness ==
    /\ vt_operator = << "s", "f" >>
    /\ vt_line_ref = << "o", "w", "l" >>
    /\ Falsy(vt_mode)
    /\ vt_result = "train"

VehicleTypes == {"train", "bus", "unknown"}

\* a rule of the classifier applies: the mode names a vehicle, or the
\* operator is in the table
OperatorTable ==
    FixedTrainOperators \union FixedBusOperators \union { << "S", "F" >>, << "S", "C" >> }
RuleApplies ==
    NamesTrain(vt_mode) \/ NamesBus(vt_mode) \/ StrUpper(vt_operator) \in OperatorTable

\* C27: get_vehicle_type returns "train", "bus" or "unknown" for all
\* arguments, and "unknown" exactly when no rule applies (the mode names no
\* vehicle and the operator is not in the table).
C27_UnknownOnlyWithoutRule ==
    vt_result # ""
    => /\ vt_result \in VehicleTypes
       /\ vt_result = "unknown" <=> ~RuleApplies

\* the text of the response as _make_request examines it
ExaminedText == Strip(ReplaceBOM(rq_response.body))
Answered == rq_result # NoResult /\ rq_response.get = "response"
TextRead == Answered /\ rq_response.read = "text"

\* C28: a response with status 429 fails with Transit511RateLimitError and one
\* with status 401 or 403 with Transit511AuthError, whatever its body is; a
\* response with a success status whose body, without byte-order mark and
\* surrounding whitespace, begins with the rate-limit sentence fails with
\* Transit511RateLimitError.
C28_RateLimitAndAuthFailures ==
    Answered
    => /\ rq_response.status = 429 => rq_result.raised = "Transit511RateLimitError"
       /\ rq_response.status \in {401, 403} => rq_result.raised = "Transit511AuthError"
       /\ (/\ TextRead
           /\ rq_response.status = 200
           /\ StartsWith(ExaminedText, RateLimitSentence))
          => rq_result.raised = "Transit511RateLimitError"

\* a 401 response whose body is the rate-limit sentence behind a byte-order
\* mark failed with Transit511AuthError
C28_Witness ==
    /\ TextRead
    /\ rq_response.status = 401
    /\ rq_response.body = << "BOM" >> \o RateLimitSentence
    /\ rq_result.raised = "Transit511AuthError"

\* C29: a refresh whose request did not return data ends with UpdateFailed,
\* the request having raised Transit511ApiError or one of its two subclasses;
\* a refresh ends either with the data or with UpdateFailed.
C29_EveryFailureIsUpdateFailed ==
    rq_result # NoResult
    => /\ rq_result.update \in {"data", "UpdateFailed"}
       /\ ~rq_result.returned => rq_result.raised \in ApiErrorClasses

\* the coordinator p is in a request that does not end
Stuck(p) == global_coords[p].created /\ global_coords[p].fetching
\* the bounds of the model leave room for one more request, one more coordinator
RoomForRequest == api_calls["18031"] + api_calls["15000"] < MaxCalls
RoomForCoordinator == RoomForRequest /\ next_global <= MaxGlobal

\* while the request of q is stuck, the timer of every other coordinator
\* that has one armed can fire
OtherTimersFire ==
    \A p, q \in GlobalIds :
        (/\ p # q
         /\ Stuck(q)
         /\ global_coords[p].created
         /\ global_coords[p].refresh_scheduled
         /\ global_coords[p].ticks < MaxTicks
         /\ RoomForRequest)
        => ENABLED TickBegin(p)

\* while the setup of e waits for a stuck first refresh, the setup of every
\* other entry that is not loaded can run
OtherSetupsRun ==
    \A e, f \in Entries : \A c \in ScanIntervals :
        (/\ e # f
         /\ setup_task[e].idx > 0
         /\ entry_state[f] \in {"not_loaded", "setup_retry"}
         /\ Fits(SetupLoop([World EXCEPT !.st[f] = "setup_in_progress"], f, 1, c)))
        => ENABLED SetupEntry(f, c)

\* a step that creates a GlobalStopCoordinator for the stop
CreatesCoordinatorFor(stop_code) ==
    \E p \in GlobalIds :
        /\ ~global_coords[p].created
        /\ global_coords'[p].created
        /\ global_coords'[p].stop_code = stop_code

\* the stops of entry e behind the one its setup waits at, of another stop
\* code, for which no coordinator is stored
StopsWaiting(e) ==
    { j \in 1..Len(entry_stops[e]) :
        /\ setup_task[e].idx > 0
        /\ j > setup_task[e].idx
        /\ entry_stops[e][j].stop_code # entry_stops[e][setup_task[e].idx].stop_code
        /\ global_coordinators[entry_stops[e][j].stop_code] = 0 }

\* C30 (as stated): while a request of one coordinator is stuck, the timers
\* of the other coordinators fire, and the coordinator of every other stop
\* that is asked for can be created without the stuck request ending.
C30_StuckFetchDelaysNothing ==
    /\ OtherTimersFire
    /\ \A e \in Entries : \A j \in StopsWaiting(e) :
          RoomForCoordinator
          => ENABLED (/\ \E f \in Entries \ {e}, c \in ScanIntervals : SetupEntry(f, c)
                      /\ CreatesCoordinatorFor(entry_stops[e][j].stop_code))

\* C30 (amended): while a request of one coordinator is stuck, the timers of
\* the other coordinators fire and the setups of other entries run.
C30_StuckFetchDelaysNoOtherTask ==
    OtherTimersFire /\ OtherSetupsRun

\* the request of one coordinator is not answered, another coordinator has
\* its timer armed, and the setup of an entry waits while the other entry is
\* not loaded
C30_Witness ==
    /\ \E p, q \in GlobalIds :
          /\ p # q
          /\ Stuck(q)
          /\ global_coords[p].created
          /\ global_coords[p].refresh_scheduled
          /\ ~global_coords[p].fetching
          /\ global_coords[p].ticks < MaxTicks
          /\ RoomForRequest
    /\ \E e, f \in Entries :
          /\ e # f
          /\ setup_task[e].idx > 0
          /\ entry_state[f] \in {"not_loaded", "setup_retry"}
          /\ entry_stops[f] # << >>
          /\ \E c \in ScanIntervals :
                Fits(SetupLoop([World EXCEPT !.st[f] = "setup_in_progress"], f, 1, c))

\* C31: when the end of a refresh calls the listeners of a global
\* coordinator, every listener is called, also when the callback of one of
\* them raises.
C31_ListenerExceptionsIsolated ==
    [][ \A p \in GlobalIds :
          (/\ InTick(p)
           /\ ~global_coords'[p].fetching
           /\ global_coords'[p].notified # << >>)
          => global_coords'[p].notified = global_coords'[p].listeners
      ]_vars

\* the listeners the end of the refresh of p has called
NotifiedViews(p) == { global_coords'[p].notified[i] : i \in 1..Len(global_coords'[p].notified) }

\* C32: at the end of every refresh of a global coordinator, failed or not,
\* the data of each device coordinator that was called is _filter_data of
\* the data the global coordinator then holds, for the device coordinator's
\* line.
C32_NotifiedViewsShowProjection ==
    [][ \A p \in GlobalIds :
          (InTick(p) /\ ~global_coords'[p].fetching)
          => \A v \in NotifiedViews(p) :
                device_coords'[v].data
                    = FilterData(global_coords'[p].data, device_coords'[v].line_id)
      ]_vars

\* the first refresh of the coordinator the setup of e waits for ends in
\* this step, and has failed
FirstRefreshFailed(e) ==
    /\ setup_task[e].idx > 0
    /\ ~global_coords'[setup_task[e].coord].fetching
    /\ ~global_coords'[setup_task[e].coord].last_update_success

\* C33: when the first refresh of a new GlobalStopCoordinator fails, the
\* coordinator is not stored in global_coordinators, no StopDeviceCoordinator
\* is created for it, and the setup of the entry ends there, to be retried.
C33_FailedFirstRefreshStoresNothing ==
    [][ \A e \in Entries :
          FirstRefreshFailed(e)
          => /\ global_coordinators' = global_coordinators
             /\ \A k \in StopCodes : global_coordinators'[k] # setup_task[e].coord
             /\ device_coords' = device_coords
             /\ \A v \in DeviceIds :
                   device_coords'[v].global_coordinator # setup_task[e].coord
             /\ global_coords'[setup_task[e].coord].listeners = << >>
             /\ entry_state'[e] = "setup_retry"
             /\ setup_task'[e] = NoTask
      ]_vars

\* the setup of an entry has ended with a failed first refresh; its
\* coordinator is in no registry and has no listener
C33_Witness ==
    \E e \in Entries, p \in GlobalIds :
        /\ entry_state[e] = "setup_retry"
        /\ global_coords[p].created
        /\ global_coords[p].ticks = 1
        /\ ~global_coords[p].fetching
        /\ ~global_coords[p].last_update_success
        /\ global_coords[p].listeners = << >>
        /\ global_coordinators[global_coords[p].stop_code] # p

\* every StopDeviceCoordinator there is was created by a setup of e that
\* has not completed: it is in the entry_data of e
OnlyUnfinishedSetupsOf(e) ==
    \A v \in DeviceIds :
        device_coords[v].created
        => /\ device_coords[v].entry = e
           /\ \E k \in DeviceKeys : entry_data[e][k] = v

\* C34: after a setup that failed at a later stop, nothing of it is left: the
\* coordinators it stored for its earlier stops are out of
\* global_coordinators and its device coordinators listen to no coordinator.
\* (When no other setup has created a device coordinator, this is: no key
\* is stored and no coordinator has a listener.)
C34_FailedSetupLeavesNothing ==
    \A e \in Entries :
        (entry_state[e] = "setup_retry" /\ OnlyUnfinishedSetupsOf(e))
        => /\ \A k \in StopCodes : global_coordinators[k] = 0
           /\ \A p \in GlobalIds : global_coords[p].listeners = << >>

\* the device coordinators entry e holds for the stop and the line
ViewsOf(e, stop_code, line_id) ==
    { v \in DeviceIds :
        /\ device_coords[v].created
        /\ device_coords[v].entry = e
        /\ device_coords[v].stop_code = stop_code
        /\ device_coords[v].line_id = line_id
        /\ entry_data[e][<< stop_code, line_id >>] = v }

\* C35: a loaded entry that the config flow has written for a stop and a
\* line holds exactly one StopDeviceCoordinator for them, and it listens to
\* the GlobalStopCoordinator stored under the key of the stop.
C35_OneViewPerConfiguredStop ==
    \A e \in Entries :
        (entry_state[e] = "loaded" /\ entry_config[e] # NoConfig)
        => /\ Cardinality(ViewsOf(e, entry_config[e].stop_code, entry_config[e].line_id)) = 1
           /\ \A v \in ViewsOf(e, entry_config[e].stop_code, entry_config[e].line_id) :
                 /\ global_coordinators[entry_config[e].stop_code] # 0
                 /\ device_coords[v].global_coordinator
                        = global_coordinators[entry_config[e].stop_code]

\* the coordinator p has left the warm-up for a scan interval other than 60 s
WarmupLeft(p) ==
    /\ global_coords[p].created
    /\ global_coords[p].first_update_done
    /\ global_coords[p].update_interval = global_coords[p].scan_interval
    /\ global_coords[p].scan_interval # WARMUP_INTERVAL

\* C36: _first_update_done of a GlobalStopCoordinator is never cleared once
\* it is set; its update_interval is always 60 s or its scan interval; and
\* once the update_interval was set back to a scan interval other than 60 s
\* it stays there.
C36_WarmupIsMonotonic ==
    [][ \A p \in GlobalIds :
          global_coords[p].created
          => /\ global_coords[p].first_update_done => global_coords'[p].first_update_done
             /\ global_coords'[p].update_interval
                   \in {WARMUP_INTERVAL, global_coords'[p].scan_interval}
             /\ global_coords'[p].scan_interval = global_coords[p].scan_interval
             /\ WarmupLeft(p)
                => global_coords'[p].update_interval = global_coords[p].update_interval
      ]_vars

\* a coordinator with a scan interval of 300 s has started a refresh after
\* the one that set its update_interval back to 300 s
C36_Witness ==
    \E p \in GlobalIds :
        /\ WarmupLeft(p)
        /\ global_coords[p].ticks >= 3

\* the (first-update flag, poll interval) state of a coordinator
PollState(c) == << c.first_update_done, c.update_interval >>

\* C37: a GlobalStopCoordinator and a Transit511VehicleCoordinator that were
\* constructed with the same scan interval and whose refreshes ended the
\* same way are in the same (first-update flag, poll interval) state after
\* every refresh.
C37_VehicleStaggersLikeStop ==
    stagger # NoStagger
    => /\ PollState(stagger.vehicle) = PollState(stagger.stop)
       /\ stagger.vehicle.last_update_success = stagger.stop.last_update_success

\* both coordinators, constructed with 300 s, have gone through the 60 s
\* interval and are back at 300 s after three refreshes, the second failed
C37_Witness ==
    /\ stagger # NoStagger
    /\ stagger.scan_interval = 300
    /\ Len(stagger.outcomes) = 3
    /\ stagger.outcomes[2] = "Transit511ApiError"
    /\ PollState(stagger.vehicle) = << TRUE, 300 >>
    /\ PollState(stagger.stop) = << TRUE, 300 >>

\* async_unload_entry of e returns False in this step, after it has not
\* been called or has returned True
UnloadFails(e) == unload_result'[e] = "False" /\ unload_result[e] # "False"

\* C38: a call of async_unload_entry whose platforms could not be unloaded
\* returns False and leaves global_coordinators, the entry_data of every
\* entry, the coordinators and the state of the entry as they were.
C38_FailedUnloadChangesNothing ==
    [][ \A e \in Entries :
          UnloadFails(e)
          => /\ global_coordinators' = global_coordinators
             /\ entry_data' = entry_data
             /\ global_coords' = global_coords
             /\ device_coords' = device_coords
             /\ entry_state' = entry_state
      ]_vars

\* the unload of a loaded entry has returned False; its key is stored and
\* its entry_data holds a device coordinator
C38_Witness ==
    \E e \in Entries :
        /\ unload_result[e] = "False"
        /\ entry_state[e] = "loaded"
        /\ global_coordinators["18031"] # 0
        /\ \E k \in DeviceKeys : entry_data[e][k] # 0

====
